---- MODULE Spec2Model ----
(***************************************************************************)
(* Model of dash-rs: the response decoders of src/response.rs and the      *)
(* IndexedSerializer of src/serde/ser/indexed.rs.                          *)
(*                                                                         *)
(* Text is a sequence of one-character strings, so that str::split and     *)
(* string equality are computed, not assumed.  Option<T> is <<>> (None) or *)
(* <<x>> (Some(x)).       Result<T, ResponseError> is a record                  *)
(* [tag, err, val]: Ok(v) is tag "Ok" with val = <<v>> for a single record *)
(* and val = the list for a Vec; Err(e) is tag "Err" with err = e.         *)
(***************************************************************************)
EXTENDS Integers, Sequences, FiniteSets, TLC

VARIABLES
    response,   \* the body handed to a response decoder
    called,     \* which decoder ran on it ("" before the call)
    result,     \* what the decoder returned
    calls,      \* record decoder invocations the call made, in order
    ser,        \* the IndexedSerializer: delimiter, writer, map_like, is_start
    fields,     \* the fields handed to serialize_field so far, in order
    ser_state,  \* "idle" | "open" (serialize_struct returned) | "ended" | "failed"
    sink,       \* the most bytes the writer takes in one write; 0: all of them
    once,       \* GD_SERVER_ENDPOINT_BASE_URL: the OnceLock's state and value
    threads,    \* per thread: the call it is in and its position in it
    log         \* the calls on the base address that have returned

vars ==
    <<response, called, result, calls, ser, fields, ser_state, sink,
      once, threads, log>>

respVars == <<response, called, result, calls>>
serVars == <<ser, fields, ser_state, sink>>
urlVars == <<once, threads, log>>

(***************************************************************************)
(* Text primitives                                                          *)
(***************************************************************************)

\* Whether pat occurs in s at position i (1-based).
MatchAt(s, pat, i) ==
    /\ i + Len(pat) - 1 <= Len(s)
    /\ \A k \in 1..Len(pat) : s[i + k - 1] = pat[k]

RECURSIVE SplitAcc(_, _, _, _)
SplitAcc(s, pat, i, cur) ==
    IF i > Len(s) THEN <<cur>>
    ELSE IF MatchAt(s, pat, i)
         THEN <<cur>> \o SplitAcc(s, pat, i + Len(pat), <<>>)
         ELSE SplitAcc(s, pat, i + 1, Append(cur, s[i]))

\* str::split(pat): the pieces between the non-overlapping matches of pat,
\* left to right; always at least one piece, empty pieces included.
SplitStr(s, pat) == SplitAcc(s, pat, 1, <<>>)

RECURSIVE Join(_, _)
\* The pieces joined by the delimiter d.
Join(pieces, d) ==
    IF Len(pieces) = 0 THEN <<>>
    ELSE IF Len(pieces) = 1 THEN pieces[1]
    ELSE pieces[1] \o d \o Join(Tail(pieces), d)

RECURSIVE FilterNonEmpty(_)
\* .filter(|s| !s.is_empty())
FilterNonEmpty(pieces) ==
    IF Len(pieces) = 0 THEN <<>>
    ELSE IF pieces[1] = <<>> THEN FilterNonEmpty(Tail(pieces))
    ELSE <<pieces[1]>> \o FilterNonEmpty(Tail(pieces))

Digits == <<"0", "1", "2", "3", "4", "5", "6", "7", "8", "9">>

DigitValue(c) == CHOOSE d \in 0..9 : Digits[d + 1] = c

IsDigit(c) == \E d \in 1..10 : Digits[d] = c

RECURSIVE ParseDigits(_, _)
ParseDigits(s, acc) ==
    IF Len(s) = 0 THEN acc
    ELSE ParseDigits(Tail(s), acc * 10 + DigitValue(s[1]))

\* str::parse::<u64>(): -1 stands for a parse error.
ParseU64(s) ==
    IF Len(s) > 0 /\ \A i \in 1..Len(s) : IsDigit(s[i])
    THEN ParseDigits(s, 0)
    ELSE -1

(***************************************************************************)
(* ResponseError and Result                                                 *)
(***************************************************************************)

Ok(v) == [tag |-> "Ok", err |-> "", val |-> v]
Err(e) == [tag |-> "Err", err |-> e, val |-> <<>>]

NOT_FOUND_BODY == <<"-", "1">>

IP_BANNED_BODY ==
    <<"e", "r", "r", "o", "r", " ", "c", "o", "d", "e", ":", " ",
      "1", "0", "0", "5">>

\* Mutant of check_response_errors: the reserved bodies are recognised by
\* prefix instead of by equality with the whole body.
check_response_errors_by_prefix(resp) ==
    IF Len(resp) >= 2 /\ SubSeq(resp, 1, 2) = NOT_FOUND_BODY THEN Err("NotFound")
    ELSE IF Len(resp) >= 16 /\ SubSeq(resp, 1, 16) = IP_BANNED_BODY THEN Err("IpBanned")
    ELSE Ok(<<>>)

\* section!($iter) on its n-th use: Some(the n-th item of the split), or
\* None when the split has fewer items, on which the caller returns
\* UnexpectedFormat.
section_macro(sections, n) == IF n <= Len(sections) THEN <<sections[n]>> ELSE <<>>

check_response_errors(resp) ==
    IF resp = NOT_FOUND_BODY THEN Err("NotFound")
    ELSE IF resp = IP_BANNED_BODY THEN Err("IpBanned")
    ELSE Ok(<<>>)

(***************************************************************************)
(* Record decoders (GJFormat::from_gj_str).  The record codec's decoding   *)
(* side is not part of the files modelled here; these follow the spec's    *)
(* description of it: a fragment is split on the record's field delimiter, *)
(* a keyed record is a list of key/value pairs, numeric fields must be     *)
(* decimal text, and the empty string is not a valid record encoding.      *)
(***************************************************************************)

RECURSIVE LookupKey(_, _)
\* The value paired with key in a key/value token list: Some(value) or None.
LookupKey(tokens, key) ==
    IF Len(tokens) < 2 THEN <<>>
    ELSE IF tokens[1] = key THEN <<tokens[2]>>
    ELSE LookupKey(Tail(Tail(tokens)), key)

\* A required numeric field: its value, or -1 when missing or not decimal.
RequiredU64(tokens, key) ==
    LET v == LookupKey(tokens, key)
    IN  IF v = <<>> THEN -1 ELSE ParseU64(v[1])

\* Level<()>: keyed on ':'; 1 = level_id, 2 = name, 6 = creator (user id),
\* 35 = custom song id, where a missing key or the id 0 is "no custom song".
Level_from_gj_str(fragment) ==
    LET tokens == SplitStr(fragment, <<":">>)
        id == RequiredU64(tokens, <<"1">>)
        name == LookupKey(tokens, <<"2">>)
        creator == RequiredU64(tokens, <<"6">>)
        song == LookupKey(tokens, <<"3", "5">>)
        songId == IF song = <<>> THEN 0 ELSE ParseU64(song[1])
    IN  IF Len(tokens) % 2 # 0 \/ id < 0 \/ creator < 0 \/ songId < 0
        THEN Err("De")
        ELSE Ok([level_id |-> id,
                 name |-> IF name = <<>> THEN <<>> ELSE name[1],
                 creator |-> creator,
                 custom_song |-> IF songId = 0 THEN <<>> ELSE <<songId>>])

\* Creator: positional on ':', user_id:name:account_id.
Creator_from_gj_str(fragment) ==
    LET tokens == SplitStr(fragment, <<":">>)
    IN  IF Len(tokens) # 3 \/ ParseU64(tokens[1]) < 0 \/ ParseU64(tokens[3]) < 0
        THEN Err("De")
        ELSE Ok([user_id |-> ParseU64(tokens[1]),
                 name |-> tokens[2],
                 account_id |-> ParseU64(tokens[3])])

\* NewgroundsSong: keyed on "~|~"; 1 = song_id, 2 = name.
NewgroundsSong_from_gj_str(fragment) ==
    LET tokens == SplitStr(fragment, <<"~", "|", "~">>)
        id == RequiredU64(tokens, <<"1">>)
        name == LookupKey(tokens, <<"2">>)
    IN  IF Len(tokens) % 2 # 0 \/ id < 0 \/ name = <<>>
        THEN Err("De")
        ELSE Ok([song_id |-> id, name |-> name[1]])

\* LevelComment: keyed on '~'; 2 = content, 6 = comment_id.  The user
\* relation is filled in by the resolver.
LevelComment_from_gj_str(fragment) ==
    LET tokens == SplitStr(fragment, <<"~">>)
        content == LookupKey(tokens, <<"2">>)
        id == RequiredU64(tokens, <<"6">>)
    IN  IF Len(tokens) % 2 # 0 \/ id < 0 \/ content = <<>>
        THEN Err("De")
        ELSE Ok([comment_id |-> id, content |-> content[1], user |-> <<>>])

\* CommentUser: keyed on '~'; 1 = name, 9 = icon index.
CommentUser_from_gj_str(fragment) ==
    LET tokens == SplitStr(fragment, <<"~">>)
        name == LookupKey(tokens, <<"1">>)
        icon == RequiredU64(tokens, <<"9">>)
    IN  IF Len(tokens) % 2 # 0 \/ icon < 0 \/ name = <<>>
        THEN Err("De")
        ELSE Ok([name |-> name[1], icon_index |-> icon])

\* ProfileComment: keyed on '~'; 2 = content, 6 = comment_id.
ProfileComment_from_gj_str(fragment) ==
    LET tokens == SplitStr(fragment, <<"~">>)
        content == LookupKey(tokens, <<"2">>)
        id == RequiredU64(tokens, <<"6">>)
    IN  IF Len(tokens) % 2 # 0 \/ id < 0 \/ content = <<>>
        THEN Err("De")
        ELSE Ok([comment_id |-> id, content |-> content[1]])

\* Profile and SearchedUser: keyed on ':'; 1 = name, 2 = user_id.
Profile_from_gj_str(fragment) ==
    LET tokens == SplitStr(fragment, <<":">>)
        name == LookupKey(tokens, <<"1">>)
        id == RequiredU64(tokens, <<"2">>)
    IN  IF Len(tokens) % 2 # 0 \/ id < 0 \/ name = <<>>
        THEN Err("De")
        ELSE Ok([name |-> name[1], user_id |-> id])

SearchedUser_from_gj_str(fragment) == Profile_from_gj_str(fragment)

\* T::from_gj_str by the name of T.
from_gj_str(kind, fragment) ==
    CASE kind = "Level" -> Level_from_gj_str(fragment)
      [] kind = "Creator" -> Creator_from_gj_str(fragment)
      [] kind = "NewgroundsSong" -> NewgroundsSong_from_gj_str(fragment)
      [] kind = "LevelComment" -> LevelComment_from_gj_str(fragment)
      [] kind = "CommentUser" -> CommentUser_from_gj_str(fragment)
      [] kind = "ProfileComment" -> ProfileComment_from_gj_str(fragment)
      [] kind = "Profile" -> Profile_from_gj_str(fragment)
      [] kind = "SearchedUser" -> SearchedUser_from_gj_str(fragment)

\* What a decoder call returns in the model: the Result and the record
\* decoder invocations <<kind, fragment>> made on the way, in order.
Outcome(res, cs) == [res |-> res, calls |-> cs]

RECURSIVE DecodeAllSkippingFailures(_, _)
\* Mutant of DecodeAll: a fragment that fails to decode is skipped
\* (filter_map(|f| T::from_gj_str(f).ok())) instead of ending the call.
DecodeAllSkippingFailures(kind, frags) ==
    IF Len(frags) = 0 THEN Outcome(Ok(<<>>), <<>>)
    ELSE LET r == from_gj_str(kind, frags[1])
             call == <<kind, frags[1]>>
             rest == DecodeAllSkippingFailures(kind, Tail(frags))
         IN  Outcome(Ok((IF r.tag = "Err" THEN <<>> ELSE <<r.val>>) \o rest.res.val),
                     <<call>> \o rest.calls)

RECURSIVE DecodeAll(_, _)
\* .map(T::from_gj_str).collect::<Result<Vec<T>, _>>(): fragments are decoded
\* left to right and the first failure ends the iteration.
DecodeAll(kind, frags) ==
    IF Len(frags) = 0 THEN Outcome(Ok(<<>>), <<>>)
    ELSE LET r == from_gj_str(kind, frags[1])
             call == <<kind, frags[1]>>
         IN  IF r.tag = "Err" THEN Outcome(r, <<call>>)
             ELSE LET rest == DecodeAll(kind, Tail(frags))
                  IN  IF rest.res.tag = "Err"
                      THEN Outcome(rest.res, <<call>> \o rest.calls)
                      ELSE Outcome(Ok(<<r.val>> \o rest.res.val),
                                   <<call>> \o rest.calls)

(***************************************************************************)
(* parse_get_gj_levels_response                                             *)
(***************************************************************************)

RECURSIVE FindLast(_, _, _)
\* Mutant of FindFirst: the last match instead of the first.
FindLast(list, key, id) ==
    IF Len(list) = 0 THEN <<>>
    ELSE IF list[Len(list)][key] = id THEN <<list[Len(list)]>>
    ELSE FindLast(SubSeq(list, 1, Len(list) - 1), key, id)

RECURSIVE FindFirst(_, _, _)
\* iter().find(|x| x.key == id).cloned()
FindFirst(list, key, id) ==
    IF Len(list) = 0 THEN <<>>
    ELSE IF list[1][key] = id THEN <<list[1]>>
    ELSE FindFirst(Tail(list), key, id)

\* The closure's record: the level with its creator and custom_song relations.
ResolveLevel(level, creators, songs) ==
    [level_id |-> level.level_id,
     name |-> level.name,
     creator |-> FindFirst(creators, "user_id", level.creator),
     custom_song |-> IF level.custom_song = <<>> THEN <<>>
                     ELSE FindFirst(songs, "song_id", level.custom_song[1])]

CreatorFragments(section) == FilterNonEmpty(SplitStr(section, <<"|">>))

SongFragments(section) == FilterNonEmpty(SplitStr(section, <<"~", ":", "~">>))

LevelFragments(section) == SplitStr(section, <<"|">>)

parse_get_gj_levels_response(resp) ==
    LET chk == check_response_errors(resp)
        sections == SplitStr(resp, <<"#">>)
    IN  IF chk.tag = "Err" THEN Outcome(chk, <<>>)
        ELSE IF section_macro(sections, 1) = <<>> \/ section_macro(sections, 2) = <<>>
             THEN Outcome(Err("UnexpectedFormat"), <<>>)
        ELSE LET creators == DecodeAll("Creator", CreatorFragments(sections[2]))
             IN  IF creators.res.tag = "Err" THEN creators
                 ELSE IF section_macro(sections, 3) = <<>>
                      THEN Outcome(Err("UnexpectedFormat"), creators.calls)
                 ELSE LET songs == DecodeAll("NewgroundsSong", SongFragments(sections[3]))
                      IN  IF songs.res.tag = "Err"
                          THEN Outcome(songs.res, creators.calls \o songs.calls)
                          ELSE LET levels == DecodeAll("Level", LevelFragments(sections[1]))
                                   cs == creators.calls \o songs.calls \o levels.calls
                               IN  IF levels.res.tag = "Err" THEN Outcome(levels.res, cs)
                                   ELSE Outcome(
                                       Ok([i \in 1..Len(levels.res.val) |->
                                            ResolveLevel(levels.res.val[i],
                                                         creators.res.val, songs.res.val)]),
                                       cs)

(***************************************************************************)
(* The single-record decoders                                               *)
(***************************************************************************)

\* Ok(T::from_gj_str(fragment)?)
DecodeOne(kind, fragment) ==
    LET r == from_gj_str(kind, fragment)
    IN  Outcome(IF r.tag = "Err" THEN r ELSE Ok(<<r.val>>), <<<<kind, fragment>>>>)

\* section!(response.split('#')) of the decoders that read one section.
FirstSection(resp) == section_macro(SplitStr(resp, <<"#">>), 1)

parse_download_gj_level_response(resp) ==
    LET chk == check_response_errors(resp)
    IN  IF chk.tag = "Err" THEN Outcome(chk, <<>>)
        ELSE IF FirstSection(resp) = <<>> THEN Outcome(Err("UnexpectedFormat"), <<>>)
        ELSE DecodeOne("Level", FirstSection(resp)[1])

parse_get_gj_user_info_response(resp) ==
    LET chk == check_response_errors(resp)
    IN  IF chk.tag = "Err" THEN Outcome(chk, <<>>)
        ELSE DecodeOne("Profile", resp)

parse_get_gj_users_response(resp) ==
    LET chk == check_response_errors(resp)
    IN  IF chk.tag = "Err" THEN Outcome(chk, <<>>)
        ELSE IF FirstSection(resp) = <<>> THEN Outcome(Err("UnexpectedFormat"), <<>>)
        ELSE DecodeOne("SearchedUser", FirstSection(resp)[1])

(***************************************************************************)
(* parse_get_gj_comments_response, parse_get_gj_acccount_comments_response  *)
(***************************************************************************)

\* "1~~9~~10~~11~~14~~15~~16~"
NO_USER_SENTINEL ==
    <<"1", "~", "~", "9", "~", "~", "1", "0", "~", "~", "1", "1", "~", "~",
      "1", "4", "~", "~", "1", "5", "~", "~", "1", "6", "~">>

\* Mutant of IsSentinel: the sentinel is recognised by prefix.
IsSentinelByPrefix(raw_user) ==
    /\ Len(raw_user) >= Len(NO_USER_SENTINEL)
    /\ SubSeq(raw_user, 1, Len(NO_USER_SENTINEL)) = NO_USER_SENTINEL

\* raw_user == "1~~9~~10~~11~~14~~15~~16~"
IsSentinel(raw_user) == raw_user = NO_USER_SENTINEL

\* The closure of parse_get_gj_comments_response on one fragment: the first
\* two items of fragment.split(':') are the comment and the user.
CommentPair(fragment) ==
    LET parts == SplitStr(fragment, <<":">>)
    IN  IF Len(parts) >= 2
        THEN LET raw_comment == parts[1]
                 raw_user == parts[2]
                 comment == from_gj_str("LevelComment", raw_comment)
                 c1 == <<"LevelComment", raw_comment>>
             IN  IF comment.tag = "Err" THEN Outcome(comment, <<c1>>)
                 ELSE IF IsSentinel(raw_user)
                      THEN Outcome(Ok([comment.val EXCEPT !.user = <<>>]), <<c1>>)
                 ELSE LET user == from_gj_str("CommentUser", raw_user)
                          c2 == <<"CommentUser", raw_user>>
                      IN  IF user.tag = "Err" THEN Outcome(user, <<c1, c2>>)
                          ELSE Outcome(Ok([comment.val EXCEPT !.user = <<user.val>>]),
                                       <<c1, c2>>)
        ELSE Outcome(Err("UnexpectedFormat"), <<>>)

RECURSIVE CollectPairs(_)
\* .map(closure).collect(): the first failing fragment ends the iteration.
CollectPairs(frags) ==
    IF Len(frags) = 0 THEN Outcome(Ok(<<>>), <<>>)
    ELSE LET r == CommentPair(frags[1])
         IN  IF r.res.tag = "Err" THEN r
             ELSE LET rest == CollectPairs(Tail(frags))
                  IN  IF rest.res.tag = "Err"
                      THEN Outcome(rest.res, r.calls \o rest.calls)
                      ELSE Outcome(Ok(<<r.res.val>> \o rest.res.val),
                                   r.calls \o rest.calls)

PairFragments(section) == SplitStr(section, <<"|">>)

parse_get_gj_comments_response(resp) ==
    LET chk == check_response_errors(resp)
    IN  IF chk.tag = "Err" THEN Outcome(chk, <<>>)
        ELSE IF FirstSection(resp) = <<>> THEN Outcome(Err("UnexpectedFormat"), <<>>)
        ELSE CollectPairs(PairFragments(FirstSection(resp)[1]))

AccountCommentFragments(section) == SplitStr(section, <<"|">>)

parse_get_gj_acccount_comments_response(resp) ==
    LET chk == check_response_errors(resp)
    IN  IF chk.tag = "Err" THEN Outcome(chk, <<>>)
        ELSE IF FirstSection(resp) = <<>> THEN Outcome(Err("UnexpectedFormat"), <<>>)
        ELSE DecodeAll("ProfileComment", AccountCommentFragments(FirstSection(resp)[1]))

\* The decoder of response.rs by its name.
Decode(name, resp) ==
    CASE name = "parse_get_gj_levels_response" -> parse_get_gj_levels_response(resp)
      [] name = "parse_download_gj_level_response" -> parse_download_gj_level_response(resp)
      [] name = "parse_get_gj_user_info_response" -> parse_get_gj_user_info_response(resp)
      [] name = "parse_get_gj_users_response" -> parse_get_gj_users_response(resp)
      [] name = "parse_get_gj_comments_response" -> parse_get_gj_comments_response(resp)
      [] name = "parse_get_gj_acccount_comments_response" ->
            parse_get_gj_acccount_comments_response(resp)

(***************************************************************************)
(* Response bodies                                                          *)
(***************************************************************************)

\* The most fragments a generated level, pair or account comment section has.
MaxFragments == 2

Colon == <<":">>
Pipe == <<"|">>
Hash == <<"#">>
SongSep == <<"~", ":", "~">>

\* Level fragments: level 1 by user 3 with custom song 5; level 2 by user 4
\* without a custom song; level 3 named "7" by user 9 with custom song 8;
\* a fragment that does not decode; the empty fragment.
LV_A == <<"1", ":", "1", ":", "6", ":", "3", ":", "3", "5", ":", "5">>
LV_B == <<"1", ":", "2", ":", "6", ":", "4">>
LV_C == <<"1", ":", "3", ":", "2", ":", "7", ":", "6", ":", "9", ":", "3", "5", ":", "8">>
LV_BAD == <<"1", ":", "x">>
LevelFragmentInputs == {LV_A, LV_B, LV_C, LV_BAD, <<>>}

\* Creator fragments: two creators with user id 3, one with user id 4.
CR_3A == <<"3", ":", "a", ":", "7">>
CR_3B == <<"3", ":", "b", ":", "8">>
CR_4 == <<"4", ":", "c", ":", "9">>
CR_BAD == <<"x">>
CreatorSectionInputs ==
    { <<>>, CR_4, CR_BAD,
      Join(<<CR_3A, CR_3B>>, Pipe), Join(<<CR_3B, CR_3A, CR_4>>, Pipe),
      Join(<<CR_3A, <<>>, CR_4>>, Pipe), Join(<<CR_4, CR_BAD>>, Pipe) }

\* Song fragments: two songs with id 5, one with id 6.
SG_5A == <<"1", "~", "|", "~", "5", "~", "|", "~", "2", "~", "|", "~", "s">>
SG_5B == <<"1", "~", "|", "~", "5", "~", "|", "~", "2", "~", "|", "~", "t">>
SG_6 == <<"1", "~", "|", "~", "6", "~", "|", "~", "2", "~", "|", "~", "u">>
SG_BAD == <<"1", "~", "|", "~", "x">>
SongSectionInputs ==
    { <<>>, SG_6, SG_BAD,
      Join(<<SG_5B, SG_5A>>, SongSep), Join(<<SG_6, <<>>, SG_5A>>, SongSep),
      Join(<<SG_5A, SG_BAD>>, SongSep) }

\* The creator and song sections that follow a level section together.
RelatedSectionInputs ==
    { <<Join(<<CR_3A, CR_3B>>, Pipe), Join(<<SG_5B, SG_5A>>, SongSep)>>,
      <<Join(<<CR_3B, CR_3A, CR_4>>, Pipe), SG_6>>,
      <<Join(<<CR_3A, <<>>, CR_4>>, Pipe), Join(<<SG_6, <<>>, SG_5A>>, SongSep)>>,
      <<CR_4, <<>>>>,
      <<<<>>, Join(<<SG_5B, SG_5A>>, SongSep)>>,
      <<CR_BAD, SG_6>>,
      <<Join(<<CR_4, CR_BAD>>, Pipe), SG_BAD>>,
      <<CR_4, SG_BAD>>,
      <<Join(<<CR_3A, CR_3B>>, Pipe), Join(<<SG_5A, SG_BAD>>, SongSep)>> }

\* Comment and user fragments of the paired comment list.
CM_1 == <<"2", "~", "a", "~", "6", "~", "1">>
CM_2 == <<"2", "~", "b", "~", "6", "~", "2">>
CM_BAD == <<"2", "~", "a">>
US_1 == <<"1", "~", "u", "~", "9", "~", "4">>
US_BAD == <<"1", "~", "u">>
PairFragmentInputs ==
    { Join(<<CM_1, US_1>>, Colon),
      Join(<<CM_2, NO_USER_SENTINEL>>, Colon),
      CM_1,
      Join(<<CM_1, US_1, <<"z">>>>, Colon),
      Join(<<CM_2, NO_USER_SENTINEL, US_1>>, Colon),
      Join(<<CM_BAD, US_1>>, Colon),
      Join(<<CM_1, US_BAD>>, Colon),
      Join(<<CM_1, NO_USER_SENTINEL \o <<"x">>>>, Colon),
      <<>> }

AccountCommentFragmentInputs == {CM_1, CM_2, CM_BAD, <<>>}

RECURSIVE JoinWith(_, _)
\* The pieces joined by the delimiters ds, one between each two pieces.
JoinWith(pieces, ds) ==
    IF Len(pieces) = 1 THEN pieces[1]
    ELSE pieces[1] \o ds[1] \o JoinWith(Tail(pieces), Tail(ds))

\* The sections of 1..MaxFragments fragments of F, each two joined by '|' or
\* by a doubled '|'.
SectionsOf(F) ==
    UNION { { JoinWith(fs, ds) : fs \in [1..k -> F],
                                 ds \in [1..(k - 1) -> {Pipe, Pipe \o Pipe}] } :
            k \in 1..MaxFragments }

\* The page information section that follows a comment list.
PAGE_INFO == <<"9", ":", "0", ":", "1", "0">>

LevelsBodies ==
    LET L == SectionsOf(LevelFragmentInputs)
    IN  L
        \cup { Join(<<l, c>>, Hash) : l \in L, c \in CreatorSectionInputs }
        \cup { Join(<<l, r[1], r[2]>>, Hash) : l \in L, r \in RelatedSectionInputs }
        \cup { Join(<<l, CR_3A, SG_5A, PAGE_INFO>>, Hash) : l \in L }

CommentsBodies ==
    LET P == SectionsOf(PairFragmentInputs) \cup SectionsOf(AccountCommentFragmentInputs)
    IN  P \cup { Join(<<p, PAGE_INFO>>, Hash) : p \in P }

\* Bodies that begin like a reserved body without being one.
NearReservedBodies == { NOT_FOUND_BODY \o <<"0">>, IP_BANNED_BODY \o <<"#">> }

Bodies ==
    {NOT_FOUND_BODY, IP_BANNED_BODY} \cup NearReservedBodies
        \cup LevelsBodies \cup CommentsBodies

Decoders ==
    { "parse_get_gj_levels_response", "parse_download_gj_level_response",
      "parse_get_gj_user_info_response", "parse_get_gj_users_response",
      "parse_get_gj_comments_response", "parse_get_gj_acccount_comments_response" }

NoResult == [tag |-> "None", err |-> "", val |-> <<>>]

(***************************************************************************)
(* IndexedSerializer                                                        *)
(*                                                                         *)
(* The writer is the Vec<u8> that to_string and the tests hand to new: it  *)
(* takes every byte it is offered and never fails.  The fields of a        *)
(* session are scalars and options; a field that is itself a record is     *)
(* not part of the sessions modelled here.                                  *)
(***************************************************************************)

\* A field value is [kind, b, n, t, bytes, opt].  kind is "bool" (b holds
\* it), "int" (n holds it), "float" (an f64) and "f32" (n holds the number
\* of quarters: 46 is 11.5), "char" and "str" (t holds the text), "bytes" (bytes holds the
\* blob), "none", or "unit", which stands for the constructs the serializer
\* rejects.  opt says that the value is wrapped in Some.
Blank == [kind |-> "unit", b |-> FALSE, n |-> 0, t |-> <<>>, bytes |-> <<>>,
          opt |-> FALSE]
BoolValue(v) == [Blank EXCEPT !.kind = "bool", !.b = v]
IntValue(v) == [Blank EXCEPT !.kind = "int", !.n = v]
FloatValue(q) == [Blank EXCEPT !.kind = "float", !.n = q]
\* An f32 of q quarters ("float" is the f64).
F32Value(q) == [Blank EXCEPT !.kind = "f32", !.n = q]
CharValue(c) == [Blank EXCEPT !.kind = "char", !.t = <<c>>]
StrValue(v) == [Blank EXCEPT !.kind = "str", !.t = v]
BytesValue(v) == [Blank EXCEPT !.kind = "bytes", !.bytes = v]
NoneValue == [Blank EXCEPT !.kind = "none"]
UnitValue == Blank
SomeValue(value) == [value EXCEPT !.opt = TRUE]

RECURSIVE NatText(_)
NatText(n) ==
    IF n < 10 THEN <<Digits[n + 1]>>
    ELSE NatText(n \div 10) \o <<Digits[(n % 10) + 1]>>

\* itoa::Buffer::format: decimal text, '-' before a negative value.
Itoa(int) == IF int < 0 THEN <<"-">> \o NatText(-int) ELSE NatText(int)

\* Mutant of DisplayFloat: the text of a formatter that always writes a
\* fractional part (ryu, dtoa): 11 is "11.0".
DisplayFloatDotZero(q) ==
    LET m == IF q < 0 THEN -q ELSE q
        frac == CASE m % 4 = 0 -> <<".", "0">>
                  [] m % 4 = 1 -> <<".", "2", "5">>
                  [] m % 4 = 2 -> <<".", "5">>
                  [] m % 4 = 3 -> <<".", "7", "5">>
    IN  (IF q < 0 THEN <<"-">> ELSE <<>>) \o NatText(m \div 4) \o frac

\* Display of a float holding q quarters: the shortest decimal text, which
\* has no fractional part when the value is integral.
DisplayFloat(q) ==
    LET m == IF q < 0 THEN -q ELSE q
        frac == CASE m % 4 = 0 -> <<>>
                  [] m % 4 = 1 -> <<".", "2", "5">>
                  [] m % 4 = 2 -> <<".", "5">>
                  [] m % 4 = 3 -> <<".", "7", "5">>
    IN  (IF q < 0 THEN <<"-">> ELSE <<>>) \o NatText(m \div 4) \o frac

\* base64::alphabet::URL_SAFE
B64_URL_SAFE ==
    <<"A", "B", "C", "D", "E", "F", "G", "H", "I", "J", "K", "L", "M",
      "N", "O", "P", "Q", "R", "S", "T", "U", "V", "W", "X", "Y", "Z",
      "a", "b", "c", "d", "e", "f", "g", "h", "i", "j", "k", "l", "m",
      "n", "o", "p", "q", "r", "s", "t", "u", "v", "w", "x", "y", "z",
      "0", "1", "2", "3", "4", "5", "6", "7", "8", "9", "-", "_">>

B64Char(n) == B64_URL_SAFE[n + 1]

RECURSIVE Base64Encode(_)
\* EncoderWriter over the URL_SAFE engine: write_all(v) then finish(), which
\* pads the last group with '='.
Base64Encode(v) ==
    IF Len(v) = 0 THEN <<>>
    ELSE IF Len(v) = 1
         THEN <<B64Char(v[1] \div 4), B64Char((v[1] % 4) * 16), "=", "=">>
    ELSE IF Len(v) = 2
         THEN <<B64Char(v[1] \div 4),
                B64Char((v[1] % 4) * 16 + v[2] \div 16),
                B64Char((v[2] % 16) * 4), "=">>
    ELSE <<B64Char(v[1] \div 4),
           B64Char((v[1] % 4) * 16 + v[2] \div 16),
           B64Char((v[2] % 16) * 4 + v[3] \div 64),
           B64Char(v[3] % 64)>> \o Base64Encode(SubSeq(v, 4, Len(v)))

\* The most bytes a sink takes in one write, over the sinks of a session
\* whose writer is not a Vec<u8>.
MaxAccept == 2

Min(a, b) == IF a <= b THEN a ELSE b

\* Write::write: one attempt, which takes a prefix of the buffer and returns
\* its length.  The Vec<u8> sink of to_string and of the tests (sink = 0)
\* takes the whole buffer; another sink takes at most sink bytes.
Write(w, buf) ==
    IF sink = 0 THEN w \o buf
    ELSE w \o SubSeq(buf, 1, Min(Len(buf), sink))

RECURSIVE WriteAll(_, _)
\* Write::write_all: write again with what is left until the buffer is empty.
WriteAll(w, buf) ==
    IF buf = <<>> THEN w
    ELSE LET after == Write(w, buf)
             n == Len(after) - Len(w)
         IN  WriteAll(after, SubSeq(buf, n + 1, Len(buf)))

\* IndexedSerializer::new
new(delimiter, writer, map_like) ==
    [delimiter |-> delimiter, writer |-> writer, map_like |-> map_like,
     is_start |-> TRUE]

\* The prologue shared by append_integer, append_display and append.
Separate(s) ==
    IF s.is_start THEN [s EXCEPT !.is_start = FALSE]
    ELSE [s EXCEPT !.writer = WriteAll(@, s.delimiter)]

append_integer(s, int) == [Separate(s) EXCEPT !.writer = Write(@, Itoa(int))]

append_display(s, q) == [Separate(s) EXCEPT !.writer = WriteAll(@, DisplayFloat(q))]

append(s, str) == [Separate(s) EXCEPT !.writer = WriteAll(@, str)]

serialize_f32(s, v) == append_display(s, v)

serialize_f64(s, v) == append_display(s, v)

serialize_bool(s, v) == append(s, IF v THEN <<"1">> ELSE <<"0">>)

\* v.encode_utf8(&mut char_buffer) is the text of the one character.
serialize_char(s, v) == append(s, v)

serialize_str(s, v) == append(s, v)

serialize_bytes(s, v) == [s EXCEPT !.writer = WriteAll(@, Base64Encode(v))]

serialize_none(s) == [s EXCEPT !.writer = WriteAll(@, s.delimiter)]

\* Whether value.serialize(serializer) returns Ok: every construct but the
\* supported scalars and options is Err(Error::Unsupported).
Supported(value) == value.kind # "unit"

\* value.serialize(&mut serializer): the serializer after the call.  An
\* unsupported construct writes nothing.  serialize_some(value) is
\* value.serialize(self), so the opt flag changes nothing here.
Serialize(s, value) ==
    CASE value.kind = "bool" -> serialize_bool(s, value.b)
      [] value.kind = "int" -> append_integer(s, value.n)
      [] value.kind = "f32" -> serialize_f32(s, value.n)
      [] value.kind = "float" -> serialize_f64(s, value.n)
      [] value.kind = "char" -> serialize_char(s, value.t)
      [] value.kind = "str" -> serialize_str(s, value.t)
      [] value.kind = "bytes" -> serialize_bytes(s, value.bytes)
      [] value.kind = "none" -> serialize_none(s)
      [] value.kind = "unit" -> s

\* SerializeStruct::serialize_field
serialize_field(s, key, value) ==
    Serialize(IF s.map_like THEN append(s, key) ELSE s, value)

(***************************************************************************)
(* Serializer inputs                                                        *)
(***************************************************************************)

\* The most fields one session is handed.
MaxFields == 3

Delimiters == { <<":">>, <<"~", "|", "~">> }

FieldValues ==
    { BoolValue(TRUE), IntValue(-12), FloatValue(44), FloatValue(46),
      F32Value(44), F32Value(-2), CharValue("x"), StrValue(<<"a", "b">>),
      StrValue(<<>>), BytesValue(<<1, 255>>), NoneValue,
      SomeValue(IntValue(7)), UnitValue }

\* The declared name of the i-th field of the record being encoded.
FieldName(i) == <<"k">> \o NatText(i)

(***************************************************************************)
(* The base address: GD_SERVER_ENDPOINT_BASE_URL and endpoint_base_url      *)
(*                                                                         *)
(* The static is a std::sync::OnceLock<String>.  OnceLock::get_or_init     *)
(* returns the value when the cell is initialized; otherwise it enters     *)
(* Once::call_once, where one caller moves the cell from incomplete to     *)
(* running, runs its closure, stores the value and completes the cell,     *)
(* while the other callers wait for completion.  OnceLock::set(value) is   *)
(* the same path with a closure that yields value, and is Ok exactly when  *)
(* its own closure ran.                                                     *)
(***************************************************************************)

BOOMLINGS_ENDPOINTS_BASE == "https://www.silverragdps.mathieuar.fr"

GET_USER_ENDPOINT == "getGJUserInfo20.php"

\* The threads of the process, and the calls they make between them.
NumThreads == 2
MaxCalls == 4

Threads == 1..NumThreads

\* The addresses an embedding program sets.
CustomUrls == {"http://a/", "http://b/"}

\* OnceLock::new()
UninitializedOnce == [state |-> "incomplete", value |-> "", writes |-> 0, by |-> ""]

IdleThread == [pc |-> "idle", op |-> "", arg |-> "", began_complete |-> FALSE,
               ran |-> FALSE, done |-> 0]

\* Mutant of CanRunInit: a caller that finds the initialization running
\* does not wait but runs its own closure too.
CanRunInitUnlessComplete(o) == o.state # "complete"

\* Once::call_once: the caller that finds the cell incomplete runs the closure.
CanRunInit(o) == o.state = "incomplete"

\* The value the closure of a call yields: the default address for
\* endpoint_base_url (and to_url, which calls it), the argument for set.
ClosureValue(th) == IF th.op = "set" THEN th.arg ELSE BOOMLINGS_ENDPOINTS_BASE

\* What the call returns once the cell is complete: the address (followed
\* by the endpoint for to_url), and for set Ok(()) or Err(value).
ReturnValue(th, o) ==
    CASE th.op = "endpoint_base_url" -> o.value
      [] th.op = "to_url" -> o.value \o GET_USER_ENDPOINT
      [] th.op = "set" -> IF th.ran THEN "Ok" ELSE "Err"

(***************************************************************************)
(* The response decoders as a state machine: a body arrives, one decoder   *)
(* is called on it.                                                         *)
(***************************************************************************)

IdleSerializer == new(<<":">>, <<>>, FALSE)

InitResponse ==
    /\ response \in Bodies
    /\ called = ""
    /\ result = NoResult
    /\ calls = <<>>
    /\ ser = IdleSerializer
    /\ fields = <<>>
    /\ ser_state = "idle"
    /\ sink = 0
    /\ once = UninitializedOnce
    /\ threads = [t \in {} |-> IdleThread]
    /\ log = {}

\* The caller receives what the decoder returned.
Returns(name, o) ==
    /\ result' = o.res
    /\ calls' = o.calls
    /\ called' = name

ParseGetGjLevelsResponse ==
    /\ called = ""
    /\ Returns("parse_get_gj_levels_response", parse_get_gj_levels_response(response))
    /\ UNCHANGED <<response, serVars, urlVars>>

ParseDownloadGjLevelResponse ==
    /\ called = ""
    /\ Returns("parse_download_gj_level_response",
               parse_download_gj_level_response(response))
    /\ UNCHANGED <<response, serVars, urlVars>>

ParseGetGjUserInfoResponse ==
    /\ called = ""
    /\ Returns("parse_get_gj_user_info_response",
               parse_get_gj_user_info_response(response))
    /\ UNCHANGED <<response, serVars, urlVars>>

ParseGetGjUsersResponse ==
    /\ called = ""
    /\ Returns("parse_get_gj_users_response", parse_get_gj_users_response(response))
    /\ UNCHANGED <<response, serVars, urlVars>>

ParseGetGjCommentsResponse ==
    /\ called = ""
    /\ Returns("parse_get_gj_comments_response",
               parse_get_gj_comments_response(response))
    /\ UNCHANGED <<response, serVars, urlVars>>

ParseGetGjAcccountCommentsResponse ==
    /\ called = ""
    /\ Returns("parse_get_gj_acccount_comments_response",
               parse_get_gj_acccount_comments_response(response))
    /\ UNCHANGED <<response, serVars, urlVars>>

NextResponse ==
    \/ ParseGetGjLevelsResponse
    \/ ParseDownloadGjLevelResponse
    \/ ParseGetGjUserInfoResponse
    \/ ParseGetGjUsersResponse
    \/ ParseGetGjCommentsResponse
    \/ ParseGetGjAcccountCommentsResponse

SpecResponse == InitResponse /\ [][NextResponse]_vars

(***************************************************************************)
(* One IndexedSerializer session: new, serialize_struct, serialize_field   *)
(* per field, end.                                                          *)
(***************************************************************************)

InitSerializer ==
    /\ \E d \in Delimiters, m \in BOOLEAN : ser = new(d, <<>>, m)
    /\ fields = <<>>
    /\ ser_state = "idle"
    /\ sink = 0
    /\ once = UninitializedOnce
    /\ threads = [t \in {} |-> IdleThread]
    /\ log = {}
    /\ response = <<>>
    /\ called = ""
    /\ result = NoResult
    /\ calls = <<>>

\* serialize_struct returns the serializer itself.
SerializeStruct ==
    /\ ser_state = "idle"
    /\ ser_state' = "open"
    /\ UNCHANGED <<ser, fields, sink, respVars, urlVars>>

\* serialize_field(key, value) on the next field of the record.
SerializeField ==
    /\ ser_state = "open"
    /\ Len(fields) < MaxFields
    /\ \E value \in FieldValues :
         LET key == FieldName(Len(fields) + 1)
         IN  /\ ser' = serialize_field(ser, key, value)
             /\ fields' = Append(fields, [key |-> key, value |-> value])
             /\ ser_state' = IF Supported(value) THEN "open" ELSE "failed"
    /\ UNCHANGED <<sink, respVars, urlVars>>

\* SerializeStruct::end
End ==
    /\ ser_state = "open"
    /\ ser_state' = "ended"
    /\ UNCHANGED <<ser, fields, sink, respVars, urlVars>>

NextSerializer == SerializeStruct \/ SerializeField \/ End

SpecSerializer == InitSerializer /\ [][NextSerializer]_vars

\* A session over a writer that takes a few bytes per write.
InitShortWrite ==
    /\ \E d \in Delimiters, m \in BOOLEAN : ser = new(d, <<>>, m)
    /\ fields = <<>>
    /\ ser_state = "idle"
    /\ sink \in 1..MaxAccept
    /\ once = UninitializedOnce
    /\ threads = [t \in {} |-> IdleThread]
    /\ log = {}
    /\ response = <<>>
    /\ called = ""
    /\ result = NoResult
    /\ calls = <<>>

SpecShortWrite == InitShortWrite /\ [][NextSerializer]_vars

(***************************************************************************)
(* The base address as a state machine: threads calling endpoint_base_url, *)
(* to_url and set concurrently                                              *)
(***************************************************************************)

InitBaseUrl ==
    /\ once = UninitializedOnce
    /\ threads = [t \in Threads |-> IdleThread]
    /\ log = {}
    /\ response = <<>>
    /\ called = ""
    /\ result = NoResult
    /\ calls = <<>>
    /\ ser = IdleSerializer
    /\ fields = <<>>
    /\ ser_state = "idle"
    /\ sink = 0

RECURSIVE StartedBy(_)
\* The calls the threads 1..n have begun, returned or not.
StartedBy(n) ==
    IF n = 0 THEN 0
    ELSE StartedBy(n - 1) + threads[n].done
           + (IF threads[n].pc = "idle" THEN 0 ELSE 1)

Started == StartedBy(NumThreads)

\* A thread calls endpoint_base_url(), UserRequest::to_url() or
\* GD_SERVER_ENDPOINT_BASE_URL.set(url).
BeginCall(t) ==
    /\ threads[t].pc = "idle"
    /\ Started < MaxCalls
    /\ \E op \in {"endpoint_base_url", "to_url", "set"} :
         \E arg \in (IF op = "set" THEN CustomUrls ELSE {""}) :
            threads' = [threads EXCEPT ![t] =
                [@ EXCEPT !.pc = "get", !.op = op, !.arg = arg, !.ran = FALSE,
                          !.began_complete = (once.state = "complete")]]
    /\ UNCHANGED <<once, log, respVars, serVars>>

\* get_or_init: if let Some(value) = self.get() { return value }
FastPath(t) ==
    /\ threads[t].pc = "get"
    /\ threads' = [threads EXCEPT ![t].pc =
                      IF once.state = "complete" THEN "return" ELSE "call_once"]
    /\ UNCHANGED <<once, log, respVars, serVars>>

\* Once::call_once: run the closure if no one has, return if the cell is
\* complete, wait otherwise.
CallOnce(t) ==
    /\ threads[t].pc = "call_once"
    /\ \/ /\ CanRunInit(once)
          /\ once' = [once EXCEPT !.state = "running"]
          /\ threads' = [threads EXCEPT ![t].pc = "init"]
       \/ /\ ~CanRunInit(once)
          /\ once.state = "complete"
          /\ threads' = [threads EXCEPT ![t].pc = "return"]
          /\ UNCHANGED once
    /\ UNCHANGED <<log, respVars, serVars>>

\* The closure runs, its value is stored and the cell is complete.
RunInit(t) ==
    /\ threads[t].pc = "init"
    /\ once' = [state |-> "complete", value |-> ClosureValue(threads[t]),
                writes |-> once.writes + 1, by |-> threads[t].op]
    /\ threads' = [threads EXCEPT ![t].pc = "return", ![t].ran = TRUE]
    /\ UNCHANGED <<log, respVars, serVars>>

\* The call returns.
ReturnCall(t) ==
    /\ threads[t].pc = "return"
    /\ log' = log \cup
          {[op |-> threads[t].op, arg |-> threads[t].arg,
            began_complete |-> threads[t].began_complete,
            base |-> once.value,
            ret |-> ReturnValue(threads[t], once)]}
    /\ threads' = [threads EXCEPT ![t] =
          [IdleThread EXCEPT !.done = threads[t].done + 1]]
    /\ UNCHANGED <<once, respVars, serVars>>

NextBaseUrl ==
    \E t \in Threads :
        BeginCall(t) \/ FastPath(t) \/ CallOnce(t) \/ RunInit(t) \/ ReturnCall(t)

SpecBaseUrl == InitBaseUrl /\ [][NextBaseUrl]_vars

(***************************************************************************)
(* Properties of the response decoders                                      *)
(***************************************************************************)

Returned == called # ""

Reserved(resp) == resp = NOT_FOUND_BODY \/ resp = IP_BANNED_BODY

\* The '#'-separated sections of the body.
Sections == SplitStr(response, Hash)

\* The index of the first element of list whose field key is id; 0 if none.
FirstIndex(list, key, id) ==
    IF \E j \in 1..Len(list) : list[j][key] = id
    THEN CHOOSE j \in 1..Len(list) :
            /\ list[j][key] = id
            /\ \A k \in 1..(j - 1) : list[k][key] # id
    ELSE 0

\* The records of the non-empty fragments of a section, when all decode.
RecordsOf(kind, section, sep) ==
    LET frags == FilterNonEmpty(SplitStr(section, sep))
    IN  [i \in 1..Len(frags) |-> from_gj_str(kind, frags[i]).val]

\* C1: every decoder returns NotFound on the body "-1" and IpBanned on the
\* body "error code: 1005", having decoded no record, and returns neither
\* error on any other body.
C1_ReservedBodies ==
    Returned =>
        /\ response = NOT_FOUND_BODY => result = Err("NotFound") /\ calls = <<>>
        /\ response = IP_BANNED_BODY => result = Err("IpBanned") /\ calls = <<>>
        /\ ~Reserved(response) => result.err \notin {"NotFound", "IpBanned"}

C1_Witness ==
    /\ called = "parse_get_gj_comments_response"
    /\ response = IP_BANNED_BODY
    /\ result = Err("IpBanned")

\* C2: when parse_get_gj_levels_response succeeds, the list holds one record
\* per level fragment in order; a level's creator is the first creator of
\* the second section with its user id, or none; its custom song is the
\* first song of the third section with its song id, or none when the level
\* has no custom song id or no song has it; the other fields are the level's.
C2_LevelsCrossReference ==
    (called = "parse_get_gj_levels_response" /\ result.tag = "Ok") =>
        LET frags == SplitStr(Sections[1], Pipe)
            creators == RecordsOf("Creator", Sections[2], Pipe)
            songs == RecordsOf("NewgroundsSong", Sections[3], SongSep)
        IN  /\ Len(result.val) = Len(frags)
            /\ \A i \in 1..Len(frags) :
                 LET level == Level_from_gj_str(frags[i]).val
                     got == result.val[i]
                     c == FirstIndex(creators, "user_id", level.creator)
                     sg == IF level.custom_song = <<>> THEN 0
                           ELSE FirstIndex(songs, "song_id", level.custom_song[1])
                 IN  /\ got.level_id = level.level_id
                     /\ got.name = level.name
                     /\ got.creator = IF c = 0 THEN <<>> ELSE <<creators[c]>>
                     /\ got.custom_song = IF sg = 0 THEN <<>> ELSE <<songs[sg]>>

\* Two levels, the first with the first of two creators sharing its user id
\* and the first of two songs sharing its song id, the second with neither.
C2_Witness ==
    /\ called = "parse_get_gj_levels_response"
    /\ result.tag = "Ok"
    /\ Len(result.val) = 2
    /\ result.val[1].creator = <<Creator_from_gj_str(CR_3A).val>>
    /\ result.val[1].custom_song = <<NewgroundsSong_from_gj_str(SG_5B).val>>
    /\ result.val[2].creator = <<>>
    /\ result.val[2].custom_song = <<>>
    /\ Level_from_gj_str(SplitStr(Sections[1], Pipe)[2]).val.custom_song # <<>>

\* The '|'-separated fragments of the first section.
PrimaryFragments == SplitStr(Sections[1], Pipe)

\* The ':'-separated parts of a pair fragment.
PairParts(fragment) == SplitStr(fragment, Colon)

\* C3: in parse_get_gj_comments_response a fragment that does not split on
\* ':' into exactly two parts is never decoded (a call that succeeds had
\* only two-part fragments), and it makes the call return UnexpectedFormat
\* (stated for the first fragment, which no earlier failure can precede).
C3_MalformedPairIsUnexpectedFormat ==
    (called = "parse_get_gj_comments_response" /\ ~Reserved(response)) =>
        /\ result.tag = "Ok" =>
             \A i \in 1..Len(PrimaryFragments) :
                 Len(PairParts(PrimaryFragments[i])) = 2
        /\ Len(PairParts(PrimaryFragments[1])) # 2 =>
             result = Err("UnexpectedFormat")

\* A pair that is well formed, whose comment decodes and whose author part is
\* the sentinel or decodes.
GoodPair(fragment) ==
    LET parts == PairParts(fragment)
    IN  /\ Len(parts) = 2
        /\ LevelComment_from_gj_str(parts[1]).tag = "Ok"
        /\ \/ parts[2] = NO_USER_SENTINEL
           \/ CommentUser_from_gj_str(parts[2]).tag = "Ok"

\* C4: in parse_get_gj_comments_response, a well-formed pair whose comment
\* decodes has no author when its author part is exactly the sentinel, and
\* the author decoder is never called on the sentinel; any other author part
\* is decoded, the author is the decoded record, and the call fails with a
\* decode error when the author part does not decode.
C4_SentinelAuthor ==
    (called = "parse_get_gj_comments_response" /\ ~Reserved(response)) =>
        /\ \A k \in 1..Len(calls) : calls[k] # <<"CommentUser", NO_USER_SENTINEL>>
        /\ \A i \in 1..Len(PrimaryFragments) :
             LET parts == PairParts(PrimaryFragments[i])
             IN  (/\ \A j \in 1..(i - 1) : GoodPair(PrimaryFragments[j])
                  /\ Len(parts) = 2
                  /\ LevelComment_from_gj_str(parts[1]).tag = "Ok") =>
                     IF parts[2] = NO_USER_SENTINEL
                     THEN result.tag = "Ok" => result.val[i].user = <<>>
                     ELSE LET user == CommentUser_from_gj_str(parts[2])
                          IN  /\ \E k \in 1..Len(calls) :
                                    calls[k] = <<"CommentUser", parts[2]>>
                              /\ user.tag = "Err" => result = Err("De")
                              /\ result.tag = "Ok" =>
                                    result.val[i].user = <<user.val>>

\* A comment with an author followed by a comment whose author part is the
\* sentinel.
C4_Witness ==
    /\ called = "parse_get_gj_comments_response"
    /\ result.tag = "Ok"
    /\ Len(result.val) = 2
    /\ result.val[1].user = <<CommentUser_from_gj_str(US_1).val>>
    /\ PairParts(PrimaryFragments[2])[2] = NO_USER_SENTINEL
    /\ Len(PairParts(PrimaryFragments[2])) = 2
    /\ result.val[2].user = <<>>

\* The fragments of a section without the empty fragments that lie between
\* two consecutive delimiters.
SingleDelimiters(section, sep) ==
    LET frags == SplitStr(section, sep)
        keep == { i \in 1..Len(frags) : i = 1 \/ i = Len(frags) \/ frags[i] # <<>> }
        Pick[n \in 0..Len(frags)] ==
            IF n = 0 THEN <<>>
            ELSE IF n \in keep THEN Append(Pick[n - 1], frags[n]) ELSE Pick[n - 1]
    IN  Join(Pick[Len(frags)], sep)

\* The body with every doubled fragment delimiter of the sections the
\* decoder splits replaced by a single one.
WithSingleDelimiters(name, resp) ==
    LET secs == SplitStr(resp, Hash)
    IN  Join([i \in 1..Len(secs) |->
                 IF i = 1 THEN SingleDelimiters(secs[i], Pipe)
                 ELSE IF name = "parse_get_gj_levels_response" /\ i = 2
                      THEN SingleDelimiters(secs[i], Pipe)
                 ELSE IF name = "parse_get_gj_levels_response" /\ i = 3
                      THEN SingleDelimiters(secs[i], SongSep)
                 ELSE secs[i]],
             Hash)

ListDecoders ==
    { "parse_get_gj_levels_response", "parse_get_gj_comments_response",
      "parse_get_gj_acccount_comments_response" }

\* C5: in the list decoders a body with a doubled fragment delimiter decodes
\* to what the same body with a single delimiter decodes to: the empty
\* fragment between the delimiters is dropped, not decoded and not an error.
C5_EmptyFragmentsDropped ==
    (called \in ListDecoders /\ ~Reserved(response)) =>
        result = Decode(called, WithSingleDelimiters(called, response)).res

\* C6: parse_get_gj_levels_response returns UnexpectedFormat on every body
\* that is not reserved and has fewer than three sections.
C6_TooFewSections ==
    (called = "parse_get_gj_levels_response" /\ ~Reserved(response)
        /\ Len(Sections) < 3) =>
            result = Err("UnexpectedFormat")

\* The record decoder of the primary fragments of a list decoder, and the
\* text of a primary fragment it is handed.
PrimaryKind(name) ==
    CASE name = "parse_get_gj_levels_response" -> "Level"
      [] name = "parse_get_gj_comments_response" -> "LevelComment"
      [] name = "parse_get_gj_acccount_comments_response" -> "ProfileComment"

PrimaryText(name, fragment) ==
    IF name = "parse_get_gj_comments_response" THEN PairParts(fragment)[1]
    ELSE fragment

\* The identifier of a level or comment record.
RecordId(name, rec) ==
    IF name = "parse_get_gj_levels_response" THEN rec.level_id ELSE rec.comment_id

Range(seq) == { seq[i] : i \in 1..Len(seq) }

\* C7: a list decoder returns no partial result.  If a fragment it handed
\* to a record decoder failed to decode, it returns an error and no list;
\* when it succeeds, every primary fragment decoded, and the list has one
\* record per primary fragment, in the fragments' order.
C7_NoPartialResult ==
    (called \in ListDecoders /\ ~Reserved(response)) =>
        /\ (\E k \in 1..Len(calls) : from_gj_str(calls[k][1], calls[k][2]).tag = "Err")
              => result.tag = "Err" /\ result.val = <<>>
        /\ result.tag = "Ok" =>
              /\ Len(result.val) = Len(PrimaryFragments)
              /\ \A i \in 1..Len(PrimaryFragments) :
                    LET r == from_gj_str(PrimaryKind(called),
                                         PrimaryText(called, PrimaryFragments[i]))
                    IN  /\ r.tag = "Ok"
                        /\ RecordId(called, result.val[i]) = RecordId(called, r.val)
              /\ called = "parse_get_gj_levels_response" =>
                    /\ \A f \in Range(CreatorFragments(Sections[2])) :
                          Creator_from_gj_str(f).tag = "Ok"
                    /\ \A f \in Range(SongFragments(Sections[3])) :
                          NewgroundsSong_from_gj_str(f).tag = "Ok"

\* The second of two account comments fails to decode after the first
\* decoded: the call is an error without a list.
C7_Witness ==
    /\ called = "parse_get_gj_acccount_comments_response"
    /\ Len(PrimaryFragments) = 2
    /\ Len(calls) = 2
    /\ from_gj_str(calls[1][1], calls[1][2]).tag = "Ok"
    /\ from_gj_str(calls[2][1], calls[2][2]).tag = "Err"
    /\ result = Err("De")

(***************************************************************************)
(* Properties of the IndexedSerializer                                      *)
(***************************************************************************)

\* The wire form of a field value by the format's rules: "1"/"0", decimal
\* text, the float's display text, the text itself, URL-safe base64, and
\* nothing for an absent optional.
WireForm(value) ==
    CASE value.kind = "bool" -> IF value.b THEN <<"1">> ELSE <<"0">>
      [] value.kind = "int" -> Itoa(value.n)
      [] value.kind \in {"f32", "float"} -> DisplayFloat(value.n)
      [] value.kind \in {"char", "str"} -> value.t
      [] value.kind = "bytes" -> Base64Encode(value.bytes)
      [] OTHER -> <<>>

WireForms == [i \in 1..Len(fields) |-> WireForm(fields[i].value)]

\* The names and wire forms of the fields, alternating.
NamesAndWireForms ==
    [i \in 1..(2 * Len(fields)) |->
        IF i % 2 = 1 THEN fields[(i + 1) \div 2].key
        ELSE WireForm(fields[i \div 2].value)]

\* A session that encoded a record of at least one field.
Encoded == ser_state = "ended" /\ Len(fields) >= 1

HasKind(kind) == \E i \in 1..Len(fields) : fields[i].value.kind = kind

\* C8: in positional mode the output of a record of n >= 1 fields, some of
\* them absent optionals, splits on the delimiter into n tokens, the wire
\* forms of the fields, an absent optional's token being empty.  (Stated
\* for records without byte blobs, whose separation is C9's subject.)
C8_AbsentOptionalOneSlot ==
    (Encoded /\ ~ser.map_like /\ ~HasKind("bytes")) =>
        SplitStr(ser.writer, ser.delimiter) = WireForms

\* C9: in positional mode nothing precedes the first field's value and one
\* delimiter precedes the value of every later field, whatever the kinds of
\* the fields (no absent optionals here), and the first field clears
\* is_start for good.
C9_OneDelimiterBetweenFields ==
    (Encoded /\ ~ser.map_like /\ ~HasKind("none")) =>
        /\ ser.writer = Join(WireForms, ser.delimiter)
        /\ ~ser.is_start

\* C10: in keyed mode the output is name1 d value1 d ... d name_n d value_n
\* with an empty value for an absent optional; in positional mode no field
\* name is written.
C10_KeyedPairs ==
    Encoded =>
        IF ser.map_like
        THEN ser.writer = Join(NamesAndWireForms, ser.delimiter)
        ELSE \A i \in 1..Len(fields) :
                \A p \in 1..Len(ser.writer) : ~MatchAt(ser.writer, fields[i].key, p)

\* The one field of a session that has encoded a single float.
OneFloat ==
    /\ ser_state \in {"open", "ended"}
    /\ ~ser.map_like
    /\ Len(fields) = 1
    /\ fields[1].value.kind \in {"f32", "float"}

HasDot(text) == \E p \in 1..Len(text) : text[p] = "."

\* C11: serialize_f32 and serialize_f64 write a float without fractional
\* part as its integer decimal text, with no '.' (11.0 is "11"), and keep
\* the fractional part of any other float (11.5 is "11.5").
C11_FloatWithoutFraction ==
    OneFloat =>
        LET q == fields[1].value.n
        IN  /\ q % 4 = 0 => ser.writer = Itoa(q \div 4) /\ ~HasDot(ser.writer)
            /\ q % 4 # 0 => HasDot(ser.writer)
            /\ q = 44 => ser.writer = <<"1", "1">>
            /\ q = 46 => ser.writer = <<"1", "1", ".", "5">>
            /\ q = -2 => ser.writer = <<"-", "0", ".", "5">>

\* serialize_f32 has written 11.0 as "11".
C11_Witness ==
    /\ OneFloat
    /\ fields[1].value = F32Value(44)
    /\ ser.writer = <<"1", "1">>


(***************************************************************************)
(* The base address under concurrent readers and setters                    *)
(***************************************************************************)

Reads == {e \in log : e.op \in {"endpoint_base_url", "to_url"}}

Sets == {e \in log : e.op = "set"}

\* C12: under every interleaving of threads calling endpoint_base_url,
\* to_url and set, the base address is stored at most once; every read that
\* has returned gave the stored value (to_url gave it followed by the
\* endpoint); the value is BOOMLINGS_ENDPOINTS_BASE unless a set stored it,
\* and then it is that set's argument and no read returned anything else;
\* a set begun after the cell was complete returns Err, at most one set
\* returns Ok, and the one that does is the one that stored the value.
C12_BaseUrlInitializedOnce ==
    /\ once.writes <= 1
    /\ once.writes = 1 <=> once.state = "complete"
    /\ once.state # "complete" => log = {}
    /\ \A e \in log : e.base = once.value
    /\ \A e \in Reads :
          e.ret = (IF e.op = "to_url" THEN once.value \o GET_USER_ENDPOINT
                                      ELSE once.value)
    /\ once.state = "complete" =>
          \/ once.by # "set" /\ once.value = BOOMLINGS_ENDPOINTS_BASE
          \/ once.by = "set" /\ once.value \in CustomUrls
    /\ \A e \in Sets : e.began_complete => e.ret = "Err"
    /\ \A e \in Sets : e.ret = "Ok" => once.by = "set" /\ once.value = e.arg
    /\ \A t \in Threads :
          threads[t].op = "set" /\ threads[t].began_complete => ~threads[t].ran
    /\ Cardinality({t \in Threads : threads[t].ran}
                   \cup {e \in Sets : e.ret = "Ok"}) <= 1

\* A set won the race against a reader that had already started, reads
\* through both accessors have returned, and a later set was refused.
C12_Witness ==
    /\ once.state = "complete"
    /\ once.by = "set"
    /\ \E e \in Reads :
          e.op = "to_url" /\ ~e.began_complete
            /\ e.ret = once.value \o GET_USER_ENDPOINT
    /\ \E e \in Reads : e.op = "endpoint_base_url" /\ e.ret = once.value
    /\ \E e \in Sets : e.began_complete /\ e.ret = "Err" /\ e.arg # once.value

(***************************************************************************)
(* Scalar encode calls over a sink that takes short writes                  *)
(***************************************************************************)

\* The session's calls so far all returned Ok, in positional mode, on
\* fields that are scalars.
ScalarsEncoded ==
    /\ ser_state \in {"open", "ended"}
    /\ ~ser.map_like
    /\ Len(fields) >= 1
    /\ ~HasKind("none")
    /\ ~HasKind("bytes")

\* C13: when the scalar encode calls of a session have returned Ok, the
\* sink holds the complete wire form of every value, also when the sink
\* takes fewer bytes than offered in one write: integers, strings and
\* displayed values alike are written whole, never only a prefix.
C13_SuccessMeansWholeValue ==
    ScalarsEncoded => ser.writer = Join(WireForms, ser.delimiter)

====
